---- MODULE Spec2Model ----
(***************************************************************************)
(* Congressional trade tracker: ingestion (fetch -> parse -> normalize),   *)
(* news enrichment and the scoring model, as a state machine.              *)
(*                                                                         *)
(* A text is a sequence of characters (one-character strings).  A word     *)
(* whose letters no algorithm inspects (a header word, a politician's      *)
(* name) is abbreviated to one atom of the sequence.  A nullable number is *)
(* <<>> (None / NaN) or <<n>>.                                             *)
(***************************************************************************)
EXTENDS Integers, Sequences, FiniteSets, TLC

VARIABLES
    pc,            \* position of the run
    page,          \* what the source site serves (environment)
    html,          \* body returned by fetch_html
    exc,           \* exception in flight, NoExc when none
    pr,            \* ParseResult of parse_table
    df,            \* the dataset handed from stage to stage
    inline_error,  \* message shown by st.error, <<>> when none
    raw,           \* clean_stock_name: its argument
    cleaned,       \* clean_stock_name(raw)
    recleaned,     \* clean_stock_name(cleaned)
    bracket,       \* _parse_amount_bracket: its argument
    amount,        \* _parse_amount_bracket(bracket)
    api_key,       \* os.getenv(NEWSAPI_KEY) is set
    cache,         \* enrich/news.py _cache: key -> [ts, data]
    now,           \* time.time()
    query_cache,   \* enrich_news: the pass's memo, key -> result
    news_idx,      \* enrich_news: rows already handled by the loop
    news_out,      \* enrich_news: one entry per handled row
    calls          \* the _news_request calls of the pass, in order

pipeline_vars == <<pc, page, html, exc, pr, df, inline_error>>
clean_vars == <<raw, cleaned, recleaned>>
amount_vars == <<bracket, amount>>
news_vars == <<api_key, cache, now, query_cache, news_idx, news_out, calls>>
vars == <<pipeline_vars, clean_vars, amount_vars, news_vars>>

----------------------------------------------------------------------------
(* Bounds of the model *)

MaxTables == 2
MaxRows == 2
MaxNameFragments == 4
MaxBracketLen == 4
MaxBatch == 2
MaxPatternBatch == 4
MaxNewsBatch == 3
MaxClockSteps == 2

----------------------------------------------------------------------------
(* Generic helpers *)

None == <<>>
Some(x) == <<x>>

Min2(a, b) == IF a <= b THEN a ELSE b

Take(s, n) == SubSeq(s, 1, Min2(n, Len(s)))
\* str.isspace for the characters of the model
IsSpace(c) == c \in {" ", "\t"}

RECURSIVE LStrip(_)
LStrip(s) == IF s # <<>> /\ IsSpace(Head(s)) THEN LStrip(Tail(s)) ELSE s

RECURSIVE RStrip(_)
RStrip(s) ==
    IF s # <<>> /\ IsSpace(s[Len(s)]) THEN RStrip(SubSeq(s, 1, Len(s) - 1)) ELSE s

\* str.strip()
Strip(s) == RStrip(LStrip(s))

\* re.sub(r"\s+", " ", s)
RECURSIVE CollapseWs(_)
CollapseWs(s) ==
    IF s = <<>> THEN <<>>
    ELSE IF IsSpace(Head(s)) THEN <<" ">> \o CollapseWs(LStrip(Tail(s)))
    ELSE <<Head(s)>> \o CollapseWs(Tail(s))

----------------------------------------------------------------------------
(* Exceptions *)

NoExc == [kind |-> "none", msg |-> ""]
QuiverIngestionError(m) == [kind |-> "QuiverIngestionError", msg |-> m]
ValueError(m) == [kind |-> "ValueError", msg |-> m]
KeyError(m) == [kind |-> "KeyError", msg |-> m]
RequestException == [kind |-> "requests.RequestException", msg |-> "timeout"]

----------------------------------------------------------------------------
(* ingest/quiver.py: parse_table *)

EXPECTED_HEADERS ==
    { <<"Politician">>, <<"Stock">>, <<"Trade", " ", "Type">>,
      <<"Trade", " ", "Date">>, <<"Amount">>, <<"Sector">> }

StandardizeHeader(text) == CollapseWs(Strip(text))

\* [_standardize_header(th.get_text()) for th in header_row.find_all(["th","td"])]
HeadersOf(tbl) ==
    [j \in 1..Len(tbl.header_cells) |-> StandardizeHeader(tbl.header_cells[j])]

HeaderSetOf(tbl) ==
    {HeadersOf(tbl)[j] : j \in 1..Len(tbl.header_cells)} \ {<<>>}

\* header_row present and EXPECTED_HEADERS.issubset(header_set)
TableMatches(tbl) == tbl.has_tr /\ EXPECTED_HEADERS \subseteq HeaderSetOf(tbl)

\* the first matching table (the loop's break), 0 when candidate is None
Candidate(tables) ==
    IF \E i \in 1..Len(tables) : TableMatches(tables[i])
    THEN CHOOSE i \in 1..Len(tables) :
            /\ TableMatches(tables[i])
            /\ \A k \in 1..(i - 1) : ~TableMatches(tables[k])
    ELSE 0

\* dict(zip(headers[:6], values)): a later duplicate key overwrites
LastIndexOf(headers, n, h) ==
    CHOOSE k \in 1..n : headers[k] = h /\ \A m \in (k + 1)..n : headers[m] # h

RowMappingOf(headers, cols, n) ==
    [h \in {headers[k] : k \in 1..n} |-> Strip(cols[LastIndexOf(headers, n, h)])]

RowMapping(headers, cols) == RowMappingOf(headers, cols, Min2(6, Len(headers)))

RowRecord(headers, cols) ==
    [h \in EXPECTED_HEADERS |-> RowMapping(headers, cols)[h]]

RowWarning(headers, cols) ==
    [text |-> "Row missing expected columns", mapping |-> RowMapping(headers, cols)]

\* mutant of ParseRows: a short row is dropped with a warning
RECURSIVE ParseRowsWarnShort(_, _, _, _)
ParseRowsWarnShort(headers, rows, records, warnings) ==
    IF rows = <<>> THEN [records |-> records, warnings |-> warnings]
    ELSE LET cols == Head(rows) IN
         IF Len(cols) < 6
         THEN ParseRowsWarnShort(headers, Tail(rows), records,
                                 Append(warnings, [text |-> "Short row", mapping |-> <<>>]))
         ELSE IF ~(EXPECTED_HEADERS \subseteq DOMAIN RowMapping(headers, cols))
         THEN ParseRowsWarnShort(headers, Tail(rows), records,
                                 Append(warnings, RowWarning(headers, cols)))
         ELSE ParseRowsWarnShort(headers, Tail(rows),
                                 Append(records, RowRecord(headers, cols)), warnings)

\* the row loop: records and warnings in row encounter order
RECURSIVE ParseRows(_, _, _, _)
ParseRows(headers, rows, records, warnings) ==
    IF rows = <<>> THEN [records |-> records, warnings |-> warnings]
    ELSE LET cols == Head(rows) IN
         IF Len(cols) < 6
         THEN ParseRows(headers, Tail(rows), records, warnings)
         ELSE IF ~(EXPECTED_HEADERS \subseteq DOMAIN RowMapping(headers, cols))
         THEN ParseRows(headers, Tail(rows), records,
                        Append(warnings, RowWarning(headers, cols)))
         ELSE ParseRows(headers, Tail(rows),
                        Append(records, RowRecord(headers, cols)), warnings)

\* hashlib.md5("||".join(headers)): the fingerprint stands for the header list
HeaderHash(headers) == <<"md5">> \o headers

NoParseResult == [records |-> <<>>, header_hash |-> <<>>, warnings |-> <<>>]

ParseResult(res, header_hash) ==
    [records |-> res.records, header_hash |-> header_hash, warnings |-> res.warnings]

\* the code from "tbl, headers = candidate" on
ParseCandidate(tbl) ==
    [exc |-> NoExc,
     value |-> ParseResult(ParseRows(HeadersOf(tbl), tbl.rows, <<>>, <<>>),
                           HeaderHash(HeadersOf(tbl)))]

\* mutant of ParseTableNoTablesCheck: the "if not tables" test left out
ParseTableNoTablesCheckOmitted(tables) == FALSE

\* if not tables
ParseTableNoTablesCheck(tables) == tables = <<>>

ParseTable(tables) ==
    IF ParseTableNoTablesCheck(tables)
    THEN [exc |-> QuiverIngestionError("No tables found in HTML."),
          value |-> NoParseResult]
    ELSE IF Candidate(tables) = 0
    THEN [exc |-> QuiverIngestionError("No table contained expected headers."),
          value |-> NoParseResult]
    ELSE ParseCandidate(tables[Candidate(tables)])

----------------------------------------------------------------------------
(* Numbers: a float is modelled by the exact rational [n, d], d > 0, in     *)
(* lowest terms.                                                            *)

Abs(x) == IF x < 0 THEN -x ELSE x

RECURSIVE Gcd(_, _)
Gcd(a, b) == IF b = 0 THEN a ELSE Gcd(b, a % b)

RatBy(n, d, g) == [n |-> n \div g, d |-> d \div g]

Rat(n, d) ==
    IF d < 0 THEN RatBy(-n, -d, Gcd(Abs(n), Abs(d)))
    ELSE RatBy(n, d, Gcd(Abs(n), Abs(d)))

RInt(k) == [n |-> k, d |-> 1]
RAdd(a, b) == Rat(a.n * b.d + b.n * a.d, a.d * b.d)
RSub(a, b) == Rat(a.n * b.d - b.n * a.d, a.d * b.d)
RMul(a, b) == Rat(a.n * b.n, a.d * b.d)
RDiv(a, b) == Rat(a.n * b.d, a.d * b.n)
RLeq(a, b) == a.n * b.d <= b.n * a.d
RLt(a, b) == a.n * b.d < b.n * a.d
RAbs(a) == [n |-> Abs(a.n), d |-> a.d]

RECURSIVE Pow10(_)
Pow10(k) == IF k = 0 THEN 1 ELSE 10 * Pow10(k - 1)

----------------------------------------------------------------------------
(* ingest/quiver.py: _parse_amount_bracket *)

Digits == <<"0", "1", "2", "3", "4", "5", "6", "7", "8", "9">>
IsDigit(c) == \E i \in 1..10 : Digits[i] = c
DigitVal(c) == (CHOOSE i \in 1..10 : Digits[i] = c) - 1

\* the class [\d,.]
IsNumChar(c) == IsDigit(c) \/ c \in {",", "."}
\* the class [KkMm]
IsSuffixChar(c) == c \in {"K", "k", "M", "m"}

\* end (exclusive) of the longest run of characters satisfying a class from i
RECURSIVE NumRunEnd(_, _)
NumRunEnd(s, i) == IF i <= Len(s) /\ IsNumChar(s[i]) THEN NumRunEnd(s, i + 1) ELSE i

RECURSIVE SpaceRunEnd(_, _)
SpaceRunEnd(s, i) == IF i <= Len(s) /\ IsSpace(s[i]) THEN SpaceRunEnd(s, i + 1) ELSE i

\* \$?([\d,.]+) can start at i
AmountStartsAt(s, i) ==
    \/ IsNumChar(s[i])
    \/ s[i] = "$" /\ i < Len(s) /\ IsNumChar(s[i + 1])

\* ([\d,.]+)\s*([KkMm]?) matched from a: the number s[a..b-1], the suffix at c
\* when there is one, and the position after the match
BoundResult(s, a, b, c) ==
    IF c <= Len(s) /\ IsSuffixChar(s[c])
    THEN [num |-> SubSeq(s, a, b - 1), suffix |-> <<s[c]>>, end |-> c + 1]
    ELSE [num |-> SubSeq(s, a, b - 1), suffix |-> <<>>, end |-> c]

BoundSuffix(s, a, b) == BoundResult(s, a, b, SpaceRunEnd(s, b))

BoundFrom(s, a) == BoundSuffix(s, a, NumRunEnd(s, a))

\* \$?([\d,.]+)\s*([KkMm]?) matched from i
BoundAt(s, i) == BoundFrom(s, IF s[i] = "$" THEN i + 1 ELSE i)

NoMatch == [matched |-> FALSE, g1 |-> <<>>, g2 |-> <<>>, g3 |-> <<>>, g4 |-> <<>>]

LowOnly(lo) ==
    [matched |-> TRUE, g1 |-> lo.num, g2 |-> lo.suffix, g3 |-> <<>>, g4 |-> <<>>]

LowAndHigh(lo, hi) ==
    [matched |-> TRUE, g1 |-> lo.num, g2 |-> lo.suffix, g3 |-> hi.num,
     g4 |-> hi.suffix]

\* \s*-\s* from d: the position after it, 0 when there is no dash
HighStart(s, d) ==
    IF d <= Len(s) /\ s[d] = "-" THEN SpaceRunEnd(s, d + 1) ELSE 0

\* the optional part (?:\s*-\s*\$?([\d,.]+)\s*([KkMm]?))? tried at e
SearchGroups(s, lo, e) ==
    IF e # 0 /\ e <= Len(s) /\ AmountStartsAt(s, e)
    THEN LowAndHigh(lo, BoundAt(s, e))
    ELSE LowOnly(lo)

SearchHigh(s, lo) == SearchGroups(s, lo, HighStart(s, SpaceRunEnd(s, lo.end)))

\* the leftmost position the pattern matches from
FirstStart(s) ==
    CHOOSE k \in 1..Len(s) :
        AmountStartsAt(s, k) /\ \A m \in 1..(k - 1) : ~AmountStartsAt(s, m)

\* AMOUNT_PATTERN.search(bracket): groups 1..4, group 3 = <<>> when the optional
\* part does not take part in the match; matched = FALSE when m is None
AmountSearch(s) ==
    IF ~\E i \in 1..Len(s) : AmountStartsAt(s, i)
    THEN NoMatch
    ELSE SearchHigh(s, BoundAt(s, FirstStart(s)))

\* num_str.replace(",", "")
RECURSIVE RemoveCommas(_)
RemoveCommas(s) ==
    IF s = <<>> THEN <<>>
    ELSE IF Head(s) = "," THEN RemoveCommas(Tail(s))
    ELSE <<Head(s)>> \o RemoveCommas(Tail(s))

\* float() accepts a string of digits and dots iff it has a digit and at most one dot
FloatOk(s) ==
    /\ \E i \in 1..Len(s) : IsDigit(s[i])
    /\ Cardinality({i \in 1..Len(s) : s[i] = "."}) <= 1

RECURSIVE DigitsValue(_, _)
DigitsValue(s, acc) ==
    IF s = <<>> THEN acc
    ELSE IF Head(s) = "." THEN DigitsValue(Tail(s), acc)
    ELSE DigitsValue(Tail(s), 10 * acc + DigitVal(Head(s)))

\* digits after the dot
FracDigits(s) ==
    IF \E i \in 1..Len(s) : s[i] = "."
    THEN Len(s) - (CHOOSE i \in 1..Len(s) : s[i] = ".")
    ELSE 0

\* float(s) for a string FloatOk accepts
FloatValue(s) == Rat(DigitsValue(s, 0), Pow10(FracDigits(s)))

SuffixFactor(suffix) ==
    IF suffix \in {<<"K">>, <<"k">>} THEN 1000
    ELSE IF suffix \in {<<"M">>, <<"m">>} THEN 1000000
    ELSE 1

ToNumberOk(num_str) == FloatOk(RemoveCommas(num_str))

\* to_number(num_str, suffix), for num_str not None
ToNumber(num_str, suffix) ==
    RMul(FloatValue(RemoveCommas(num_str)), RInt(SuffixFactor(suffix)))

NullAmount == [amount_low |-> None, amount_high |-> None, amount_mid |-> None]

Returned(v) == [exc |-> NoExc, value |-> v]
Raised(e, v) == [exc |-> e, value |-> v]

\* mid = (low + high) / 2
AmountTriple(low, high) ==
    Returned([amount_low |-> Some(low), amount_high |-> Some(high),
              amount_mid |-> Some(RDiv(RAdd(low, high), RInt(2)))])

\* the code after the search
ParseAmountMatch(m) ==
    IF ~m.matched THEN Returned(NullAmount)
    ELSE IF ~ToNumberOk(m.g1)
    THEN Raised(ValueError("could not convert string to float"), NullAmount)
    ELSE IF m.g3 # <<>> /\ ~ToNumberOk(m.g3)
    THEN Raised(ValueError("could not convert string to float"), NullAmount)
    ELSE AmountTriple(ToNumber(m.g1, m.g2),
                      IF m.g3 # <<>> THEN ToNumber(m.g3, m.g4)
                      ELSE ToNumber(m.g1, m.g2))

\* _parse_amount_bracket: [exc, value]; float() raising ValueError propagates
ParseAmountBracket(text) ==
    IF text = <<>> THEN Returned(NullAmount)
    ELSE ParseAmountMatch(AmountSearch(text))

----------------------------------------------------------------------------
(* ingest/quiver.py: clean_stock_name *)

UpperCase == <<"A", "B", "C", "D", "E", "F", "G", "H", "I", "J", "K", "L", "M",
               "N", "O", "P", "Q", "R", "S", "T", "U", "V", "W", "X", "Y", "Z">>
LowerCase == <<"a", "b", "c", "d", "e", "f", "g", "h", "i", "j", "k", "l", "m",
               "n", "o", "p", "q", "r", "s", "t", "u", "v", "w", "x", "y", "z">>

\* re.IGNORECASE: characters are compared lower-cased
Lower(c) ==
    IF \E i \in 1..26 : UpperCase[i] = c
    THEN LowerCase[CHOOSE i \in 1..26 : UpperCase[i] = c]
    ELSE c

LowerText(s) == [i \in 1..Len(s) |-> Lower(s[i])]

IsLetter(c) == \E i \in 1..26 : LowerCase[i] = Lower(c)

\* the three characters of the mis-decoded en-dash (U+00E2, U+20AC, U+201C)
MOJIBAKE == <<"a-circumflex", "euro", "left-double-quote">>

\* \w of a str pattern: letters (the a-circumflex too), digits, underscore
IsWordChar(c) == IsLetter(c) \/ IsDigit(c) \/ c \in {"_", "a-circumflex"}

\* the alternatives of CORP_SUFFIXES other than Class [A-Z], lower-cased
CORP_SUFFIXES ==
    { <<"i", "n", "c">>,
      <<"i", "n", "c", "o", "r", "p", "o", "r", "a", "t", "e", "d">>,
      <<"c", "o", "r", "p">>,
      <<"c", "o", "r", "p", "o", "r", "a", "t", "i", "o", "n">>,
      <<"c", "o">>,
      <<"c", "o", "m", "p", "a", "n", "y">>,
      <<"c", "o", "m", "m", "o", "n", " ", "s", "t", "o", "c", "k">>,
      <<"o", "r", "d", " ", "s", "h", "s">>,
      <<"p", "l", "c">>,
      <<"l", "t", "d">> }

\* (Inc|...|Class [A-Z]|...)\.?$ matches the whole of t
\* one of the alternatives matches the whole of u (lower-cased)
SuffixAlternative(u) ==
    \/ u \in CORP_SUFFIXES
    \/ /\ Len(u) = 7
       /\ SubSeq(u, 1, 6) = <<"c", "l", "a", "s", "s", " ">>
       /\ IsLetter(u[7])

WithoutFinalDot(l) ==
    IF l # <<>> /\ l[Len(l)] = "." THEN SubSeq(l, 1, Len(l) - 1) ELSE l

SuffixTailMatches(t) == SuffixAlternative(WithoutFinalDot(LowerText(t)))

\* \b(...)\.?$ matches from position i to the end
SuffixMatchAt(s, i) ==
    /\ i = 1 \/ ~IsWordChar(s[i - 1])
    /\ SuffixTailMatches(SubSeq(s, i, Len(s)))

\* CORP_SUFFIXES.sub("", s): the leftmost match is removed
FirstSuffixMatch(s) ==
    CHOOSE k \in 1..Len(s) :
        SuffixMatchAt(s, k) /\ \A m \in 1..(k - 1) : ~SuffixMatchAt(s, m)

CorpSuffixSub(s) ==
    IF \E i \in 1..Len(s) : SuffixMatchAt(s, i)
    THEN SubSeq(s, 1, FirstSuffixMatch(s) - 1)
    ELSE s

\* raw.replace(MOJIBAKE, "-")
RECURSIVE ReplaceMojibake(_)
ReplaceMojibake(s) ==
    IF s = <<>> THEN <<>>
    ELSE IF Len(s) >= 3 /\ SubSeq(s, 1, 3) = MOJIBAKE
    THEN <<"-">> \o ReplaceMojibake(SubSeq(s, 4, Len(s)))
    ELSE <<Head(s)>> \o ReplaceMojibake(Tail(s))

\* cleaned.split("-")[0]
RECURSIVE FirstPart(_)
FirstPart(s) ==
    IF s = <<>> \/ Head(s) = "-" THEN <<>> ELSE <<Head(s)>> \o FirstPart(Tail(s))

\* the while loop: strip a suffix and the whitespace before it, to a fixed point
RECURSIVE StripSuffixes(_)
StripSuffixes(primary) ==
    IF Strip(CorpSuffixSub(primary)) = primary THEN primary
    ELSE StripSuffixes(Strip(CorpSuffixSub(primary)))

CleanStockName(name) ==
    IF name = <<>> THEN name
    ELSE CollapseWs(StripSuffixes(Strip(FirstPart(ReplaceMojibake(name)))))


----------------------------------------------------------------------------
(* Datasets (pandas.DataFrame): a set of column names and a sequence of     *)
(* rows, each a function from the columns to values.                        *)

EmptyDF == [columns |-> {}, rows |-> <<>>]

\* DataFrame.empty: any axis of length 0
DfEmpty(d) == d.columns = {} \/ d.rows = <<>>

\* one row with column c set to v
SetCol(row, c, v) == [k \in (DOMAIN row) \cup {c} |-> IF k = c THEN v ELSE row[k]]

\* df[c] = v for a scalar v: every row gets it; a frame without rows stays so
AssignScalar(d, c, v) ==
    [columns |-> d.columns \cup {c},
     rows |-> [i \in 1..Len(d.rows) |-> SetCol(d.rows[i], c, v)]]

\* df[c] = vs for a list vs.  A frame whose index is empty takes the index of
\* the list (pandas _ensure_valid_index): it gets Len(vs) rows, the columns it
\* had filled with NaN.
AssignList(d, c, vs) ==
    IF d.rows = <<>>
    THEN [columns |-> d.columns \cup {c},
          rows |-> [i \in 1..Len(vs) |->
                       [k \in d.columns \cup {c} |-> IF k = c THEN vs[i] ELSE None]]]
    ELSE [columns |-> d.columns \cup {c},
          rows |-> [i \in 1..Len(d.rows) |-> SetCol(d.rows[i], c, vs[i])]]

\* a timestamp: a day number and an hour of that day
Stamp(day, hour) == Some([day |-> day, hour |-> hour])

\* Series.fillna for one value
FillNa(a, b) == IF a # None THEN a ELSE b

----------------------------------------------------------------------------
(* scoring/model.py *)

R0 == RInt(0)
R1 == RInt(1)

W_AMOUNT == Rat(45, 100)
W_SECTOR_VOLATILITY == Rat(15, 100)
W_NEWS_INTENSITY == Rat(15, 100)
W_EVENT_PROXIMITY == Rat(15, 100)
W_PATTERN == Rat(10, 100)

\* SECTOR_VOL.get: None for a sector the table does not hold
SECTOR_VOL(sector) ==
    CASE sector = <<"Technology">> -> Some(Rat(85, 100))
      [] sector = <<"Energy">> -> Some(Rat(90, 100))
      [] sector = <<"Healthcare">> -> Some(Rat(70, 100))
      [] sector = <<"Financial">> -> Some(Rat(65, 100))
      [] sector = <<"Industrials">> -> Some(Rat(60, 100))
      [] sector = <<"Consumer Discretionary">> -> Some(Rat(75, 100))
      [] sector = <<"Utilities">> -> Some(Rat(30, 100))
      [] OTHER -> None

\* the non-null values of a series
NonNull(series) == {series[i][1] : i \in {j \in 1..Len(series) : series[j] # None}}

\* Series.min() / Series.max(): NaN is skipped, None when nothing is left
SeriesMin(series) ==
    IF NonNull(series) = {} THEN None
    ELSE Some(CHOOSE x \in NonNull(series) : \A y \in NonNull(series) : RLeq(x, y))

SeriesMax(series) ==
    IF NonNull(series) = {} THEN None
    ELSE Some(CHOOSE x \in NonNull(series) : \A y \in NonNull(series) : RLeq(y, x))

\* _norm(x, min_x, max_x)
Norm(x, min_x, max_x) ==
    IF x = None THEN R0
    ELSE IF RLeq(RSub(max_x[1], min_x[1]), R0) THEN R0
    ELSE RDiv(RSub(x[1], min_x[1]), RSub(max_x[1], min_x[1]))

NormWith(series, min_x, max_x) ==
    [i \in 1..Len(series) |-> Some(Norm(series[i], min_x, max_x))]

NormSeries(series) == NormWith(series, SeriesMin(series), SeriesMax(series))

Zeros(d) == [i \in 1..Len(d.rows) |-> Some(R0)]

\* score_amount
ScoreAmount(d) ==
    NormSeries([i \in 1..Len(d.rows) |->
                  FillNa(FillNa(d.rows[i].amount_mid, d.rows[i].amount_low),
                         d.rows[i].amount_high)])

\* score_sector_volatility
ScoreSectorVolatility(d) ==
    [i \in 1..Len(d.rows) |-> FillNa(SECTOR_VOL(d.rows[i].Sector), Some(Rat(1, 2)))]

\* score_news_intensity
ScoreNewsIntensity(d) ==
    IF "headline_count" \in d.columns
    THEN NormSeries([i \in 1..Len(d.rows) |-> FillNa(d.rows[i].headline_count, Some(R0))])
    ELSE Zeros(d)

RMin(a, b) == IF RLt(b, a) THEN b ELSE a

\* 1 - min(v, max_d)/max_d.  max_d is a numpy scalar, so 0/0 is NaN (with a
\* RuntimeWarning), not a ZeroDivisionError; NaN operands give NaN.
Proximity(v, max_d) ==
    IF v = None \/ max_d = None THEN None
    ELSE IF max_d[1] = R0 THEN None
    ELSE Some(RSub(R1, RDiv(RMin(v[1], max_d[1]), max_d[1])))

ProximityWith(d_abs, max_d) ==
    [i \in 1..Len(d_abs) |-> Proximity(d_abs[i], max_d)]

AbsOrNone(v) == IF v = None THEN None ELSE Some(RAbs(v[1]))

\* score_event_proximity
ScoreEventProximity(d) ==
    IF "days_to_event" \in d.columns
    THEN ProximityWith([i \in 1..Len(d.rows) |-> AbsOrNone(d.rows[i].days_to_event)],
                       SeriesMax([i \in 1..Len(d.rows) |->
                                     AbsOrNone(d.rows[i].days_to_event)]))
    ELSE IF "event_flag" \in d.columns
    THEN [i \in 1..Len(d.rows) |-> FillNa(d.rows[i].event_flag, Some(R0))]
    ELSE Zeros(d)

\* groupby(["Politician", "stock_clean"])
GroupKey(row) == <<row.Politician, row.stock_clean>>

CountInto(sizes, k) ==
    IF k \in DOMAIN sizes THEN [sizes EXCEPT ![k] = @ + 1] ELSE sizes @@ (k :> 1)

\* the groups' sizes, one pass over the rows
RECURSIVE GroupSizes(_, _)
GroupSizes(rows, sizes) ==
    IF rows = <<>> THEN sizes
    ELSE GroupSizes(Tail(rows), CountInto(sizes, GroupKey(Head(rows))))

\* transform("count"): each row gets the size of its group
ComboCountsWith(rows, sizes) == [i \in 1..Len(rows) |-> sizes[GroupKey(rows[i])]]

ComboCounts(d) == ComboCountsWith(d.rows, GroupSizes(d.rows, <<>>))

\* combo_counts.max() or 1
MaxCount(counts) ==
    IF \E i \in 1..Len(counts) : counts[i] # 0
    THEN CHOOSE c \in {counts[i] : i \in 1..Len(counts)} :
            \A i \in 1..Len(counts) : counts[i] <= c
    ELSE 1

\* mutant of PatternOf: the count itself is normalised, not the repeats
PatternOfCount(c, max_c) == IF max_c > 1 THEN Rat(c, max_c) ELSE R0

\* (c-1)/(max_c-1) if max_c > 1 else 0.0
PatternOf(c, max_c) == IF max_c > 1 THEN Rat(c - 1, max_c - 1) ELSE R0

PatternWith(counts, max_c) ==
    [i \in 1..Len(counts) |-> Some(PatternOf(counts[i], max_c))]

\* score_pattern
ScorePattern(d) ==
    IF "stock_clean" \notin d.columns THEN Zeros(d)
    ELSE PatternWith(ComboCounts(d), MaxCount(ComboCounts(d)))

\* the weighted sum of one row: NaN when a component is NaN
Weighted(a, v, n, e, p) ==
    IF a = None \/ v = None \/ n = None \/ e = None \/ p = None THEN None
    ELSE Some(RAdd(RAdd(RAdd(RAdd(RMul(a[1], W_AMOUNT),
                                  RMul(v[1], W_SECTOR_VOLATILITY)),
                             RMul(n[1], W_NEWS_INTENSITY)),
                        RMul(e[1], W_EVENT_PROXIMITY)),
                   RMul(p[1], W_PATTERN)))

\* raw = weighted.fillna(0)
RawScores(c) ==
    [i \in 1..Len(c.score_amount) |->
        FillNa(Weighted(c.score_amount[i], c.score_sector_volatility[i],
                        c.score_news_intensity[i], c.score_event_proximity[i],
                        c.score_pattern[i]),
               Some(R0))]

\* mutant of RescaleDenominator: the zero range is divided by as it is
RescaleDenominatorUnguarded(range) == range

\* raw.max() - raw.min() or 1
RescaleDenominator(range) == IF range = R0 THEN R1 ELSE range

\* numpy round: to the nearest integer, a tie to the even one (x >= 0)
RoundHalfEven(x) ==
    IF 2 * (x.n % x.d) < x.d THEN x.n \div x.d
    ELSE IF 2 * (x.n % x.d) > x.d THEN x.n \div x.d + 1
    ELSE IF (x.n \div x.d) % 2 = 0 THEN x.n \div x.d
    ELSE x.n \div x.d + 1

\* (score_norm * 100).round(2)
Round2(x) == Rat(RoundHalfEven(RMul(x, RInt(100))), 100)

\* division of the rescaling: x / 0 is NaN or inf for a pandas Series
ScoreNorm(x, min_raw, denominator) ==
    IF denominator = R0 THEN None
    ELSE Some(RDiv(RSub(x, min_raw), denominator))

ScoreOf(norm) ==
    IF norm = None THEN None ELSE Some(Round2(RMul(norm[1], RInt(100))))

ScoresWith(raw_s, min_raw, max_raw) ==
    [i \in 1..Len(raw_s) |->
        ScoreOf(ScoreNorm(raw_s[i][1], min_raw[1],
                          RescaleDenominator(RSub(max_raw[1], min_raw[1]))))]

Scores(raw_s) == ScoresWith(raw_s, SeriesMin(raw_s), SeriesMax(raw_s))

Components(d) ==
    [score_amount |-> ScoreAmount(d),
     score_sector_volatility |-> ScoreSectorVolatility(d),
     score_news_intensity |-> ScoreNewsIntensity(d),
     score_event_proximity |-> ScoreEventProximity(d),
     score_pattern |-> ScorePattern(d)]

ScoreColumns ==
    {"score_amount", "score_sector_volatility", "score_news_intensity",
     "score_event_proximity", "score_pattern", "score_raw", "score"}

\* df[c] = comp_df[c] for the five components, then score_raw and score
ScoredRows(d, c, raw_s, score) ==
    [i \in 1..Len(d.rows) |->
        [k \in d.columns \cup ScoreColumns |->
            CASE k = "score_amount" -> c.score_amount[i]
              [] k = "score_sector_volatility" -> c.score_sector_volatility[i]
              [] k = "score_news_intensity" -> c.score_news_intensity[i]
              [] k = "score_event_proximity" -> c.score_event_proximity[i]
              [] k = "score_pattern" -> c.score_pattern[i]
              [] k = "score_raw" -> raw_s[i]
              [] k = "score" -> score[i]
              [] OTHER -> d.rows[i][k]]]

ScoredWith(d, c, raw_s) ==
    [columns |-> d.columns \cup ScoreColumns,
     rows |-> ScoredRows(d, c, raw_s, Scores(raw_s))]

Scored(d, c) == ScoredWith(d, c, RawScores(c))

\* the columns the component functions index without a test
ScoringColumns == {"amount_mid", "amount_low", "amount_high", "Sector"}

\* compute_scores: [exc, value]
ComputeScores(d) ==
    IF DfEmpty(d) THEN Returned(AssignList(d, "score", <<>>))
    ELSE IF ~(ScoringColumns \subseteq d.columns)
    THEN Raised(KeyError("amount_mid"), d)
    ELSE IF "stock_clean" \in d.columns /\ "Politician" \notin d.columns
    THEN Raised(KeyError("Politician"), d)
    ELSE Returned(Scored(d, Components(d)))

----------------------------------------------------------------------------
(* enrich/news.py.  A JSON object is a function from its keys; a day is a    *)
(* day number and a timestamp a day with an hour.                            *)

CACHE_TTL == 3600
WINDOW_DAYS == 2
MAX_ARTICLES_PER_TRADE == 5

\* _ck: the digest stands for the string "query|from|to"
Ck(query, from_date, to_date) == <<"md5", query, "|", from_date, "|", to_date>>

MissingKeyData == [status |-> "missing_key", articles |-> <<>>]

\* the except branch of _news_request
ErrorData(e) == [status |-> "error", error |-> e, articles |-> <<>>]

\* resp.json(), or the dict the except branch builds
FetchedData(response) ==
    IF response.raised THEN ErrorData(response.error) ELSE response.json

\* mutant of CacheHit: an entry is served whatever its age
CacheHitAnyAge(key, t) == key \in DOMAIN cache

\* cached and now - cached["ts"] < CACHE_TTL
CacheHit(key, t) == key \in DOMAIN cache /\ t - cache[key].ts < CACHE_TTL

\* _cache[key] = {"ts": now, "data": data}
CachePut(key, t, data) ==
    [k \in (DOMAIN cache) \cup {key} |->
        IF k = key THEN [ts |-> t, data |-> data] ELSE cache[k]]

\* mutant of NewsRequestWith: the test of the credential left out
NewsRequestWithoutKeyTest(key, t, response) ==
    IF CacheHit(key, t)
    THEN [data |-> cache[key].data, cache |-> cache, fetched |-> FALSE]
    ELSE [data |-> FetchedData(response),
          cache |-> CachePut(key, t, FetchedData(response)), fetched |-> TRUE]

\* _news_request at time t: the dict returned, the cache left behind, and
\* whether requests.get was called
NewsRequestWith(key, t, response) ==
    IF ~api_key
    THEN [data |-> MissingKeyData, cache |-> cache, fetched |-> FALSE]
    ELSE IF CacheHit(key, t)
    THEN [data |-> cache[key].data, cache |-> cache, fetched |-> FALSE]
    ELSE [data |-> FetchedData(response),
          cache |-> CachePut(key, t, FetchedData(response)), fetched |-> TRUE]

NewsRequest(query, from_date, to_date, t, response) ==
    NewsRequestWith(Ck(query, from_date, to_date), t, response)

\* row.get(c): None when the row has no such column
RowGet(row, c) == IF c \in DOMAIN row THEN row[c] ELSE None

\* row.get("ticker") or row.get("stock_clean")
Token(row) ==
    IF RowGet(row, "ticker") # <<>> THEN RowGet(row, "ticker")
    ELSE RowGet(row, "stock_clean")

\* (td -/+ timedelta(days=window_days)).date().isoformat(): the hour is dropped
FromDate(td) == td.day - WINDOW_DAYS
ToDate(td) == td.day + WINDOW_DAYS

\* (query, from_d, to_d) with query = f'"{token}"'
QueryKeyOf(token, td) == << <<"\"">> \o token \o <<"\"">>, FromDate(td), ToDate(td) >>

QueryKey(row) == QueryKeyOf(Token(row), row.trade_date[1])

\* pd.isna(td) and "not token" are both false: the row is looked up
Queryable(row) == row.trade_date # None /\ Token(row) # <<>>

\* result.get("articles", [])[:max_articles_per_trade]
Arts(result) ==
    IF "articles" \in DOMAIN result
    THEN Take(result.articles, MAX_ARTICLES_PER_TRADE)
    ELSE <<>>

\* a.get("source", {}).get("name")
SourceName(a) ==
    IF "source" \in DOMAIN a THEN RowGet(a.source, "name") ELSE None

Simplify(a) ==
    [title |-> RowGet(a, "title"), source |-> SourceName(a),
     url |-> RowGet(a, "url"), publishedAt |-> RowGet(a, "publishedAt")]

SimplifiedOf(arts) == [i \in 1..Len(arts) |-> Simplify(arts[i])]

Simplified(result) == SimplifiedOf(Arts(result))

\* result.get("status", "unknown")
StatusOf(result) == IF "status" \in DOMAIN result THEN result.status ELSE "unknown"

\* what the four lists get for a row; a count is stored as the dataset stores
\* its numbers
NewsEntryOf(simplified, status) ==
    [headlines |-> simplified,
     headline_count |-> Some(RInt(Len(simplified))),
     headline_first_source |-> IF simplified # <<>> THEN simplified[1].source ELSE <<>>,
     news_status |-> status]

NewsEntry(result) == NewsEntryOf(Simplified(result), StatusOf(result))

\* the entry of a row without a date or without a token
SkipEntry(row) ==
    NewsEntryOf(<<>>, IF row.trade_date = None THEN "no_date" ELSE "no_query")

NewsColumns == {"headlines", "headline_count", "headline_first_source", "news_status"}

\* df["headlines"] = headlines_list ... df["news_status"] = statuses
WithNewsColumns(d, entries) ==
    [columns |-> d.columns \cup NewsColumns,
     rows |-> [i \in 1..Len(d.rows) |->
                  [k \in d.columns \cup NewsColumns |->
                      IF k \in NewsColumns THEN entries[i][k] ELSE d.rows[i][k]]]]

\* the early return of enrich_news, else the start of its loop
EnrichNewsBegin ==
    /\ pc = "enrich_news"
    /\ IF DfEmpty(df) \/ "trade_date" \notin df.columns
       THEN pc' = "enriched" /\ UNCHANGED <<query_cache, news_idx, news_out, calls>>
       ELSE /\ pc' = "news_row"
            /\ query_cache' = <<>> /\ news_idx' = 0 /\ news_out' = <<>>
            /\ calls' = <<>>
    /\ UNCHANGED <<page, html, exc, pr, df, inline_error, clean_vars, amount_vars,
                   api_key, cache, now>>

NextRow == df.rows[news_idx + 1]

InLoop == pc = "news_row" /\ news_idx < Len(df.rows)

RowDone(entry) ==
    /\ news_out' = Append(news_out, entry)
    /\ news_idx' = news_idx + 1
    /\ pc' = "news_row"
    /\ UNCHANGED <<page, html, exc, pr, df, inline_error, clean_vars, amount_vars,
                   api_key>>

\* a row without a date or a token: no request
EnrichSkipRow ==
    /\ InLoop /\ ~Queryable(NextRow)
    /\ RowDone(SkipEntry(NextRow))
    /\ UNCHANGED <<cache, now, query_cache, calls>>

\* mutant of InQueryCache: the memo is never consulted
InQueryCacheNever(key) == FALSE

\* key in query_cache
InQueryCache(key) == key \in DOMAIN query_cache

\* a row whose key the pass has already asked for
EnrichMemoRow ==
    /\ InLoop /\ Queryable(NextRow) /\ InQueryCache(QueryKey(NextRow))
    /\ RowDone(NewsEntry(query_cache[QueryKey(NextRow)]))
    /\ UNCHANGED <<cache, now, query_cache, calls>>

MemoPut(key, data) ==
    [k \in (DOMAIN query_cache) \cup {key} |-> IF k = key THEN data ELSE query_cache[k]]

RequestDone(key, t, r) ==
    /\ now' = t
    /\ cache' = r.cache
    /\ query_cache' = MemoPut(key, r.data)
    /\ calls' = Append(calls, [key |-> key, data |-> r.data, fetched |-> r.fetched])
    /\ RowDone(NewsEntry(r.data))

\* the clock between two calls: no time, half the lifetime, the lifetime
ClockSteps == {0, CACHE_TTL \div 2, CACHE_TTL}

Article(k) ==
    [source |-> [id |-> None, name |-> <<"Source", k>>], title |-> <<"Title", k>>,
     url |-> <<"Url", k>>, publishedAt |-> <<"At", k>>]

\* what requests.get(...).json() can give: a request exception, "ok" bodies
\* with none, one and more articles than kept, the API's error body (no
\* articles), a body without status
NetworkOutcomes ==
    {[raised |-> TRUE, error |-> "timeout"],
     [raised |-> FALSE, json |-> [status |-> "ok", articles |-> <<>>]],
     [raised |-> FALSE, json |-> [status |-> "ok", articles |-> <<Article(1)>>]],
     [raised |-> FALSE,
      json |-> [status |-> "ok",
                articles |-> [k \in 1..(MAX_ARTICLES_PER_TRADE + 1) |-> Article(k)]]],
     [raised |-> FALSE, json |-> [status |-> "error", code |-> "rateLimited"]],
     [raised |-> FALSE, json |-> [articles |-> <<Article(2)>>]]}

\* a row with a new key: _news_request is called and its result memoised
EnrichRequestRow ==
    /\ InLoop /\ Queryable(NextRow) /\ ~InQueryCache(QueryKey(NextRow))
    /\ \E response \in NetworkOutcomes, step \in ClockSteps :
          RequestDone(QueryKey(NextRow), now + step,
                      NewsRequest(QueryKey(NextRow)[1], QueryKey(NextRow)[2],
                                  QueryKey(NextRow)[3], now + step, response))

\* the four columns are set and the frame returned
EnrichNewsEnd ==
    /\ pc = "news_row" /\ news_idx = Len(df.rows)
    /\ df' = WithNewsColumns(df, news_out)
    /\ pc' = "enriched"
    /\ UNCHANGED <<page, html, exc, pr, inline_error, clean_vars, amount_vars,
                   news_vars>>

----------------------------------------------------------------------------
(* ingest/quiver.py: fetch_html, normalize_records; enrich/tickers.py; app.py *)

\* fetch_html on what requests.get gives: an exception of requests passes
\* through, it is not caught here
FetchHtml(resp, body) ==
    IF resp.raised THEN Raised(RequestException, <<>>)
    ELSE IF resp.status_code # 200
    THEN Raised(QuiverIngestionError("Non-200 status"), <<>>)
    ELSE IF resp.empty THEN Raised(QuiverIngestionError("Empty response body"), <<>>)
    ELSE Returned(body)

FETCHED_AT == <<"fetched_at">>
SOURCE_URL == <<"https://www.quiverquant.com/congresstrading">>

\* pd.to_datetime(..., errors="coerce"): NaT for what is not a date
ToDatetime(text) ==
    CASE text = <<"2024-01-05">> -> Stamp(5, 0)
      [] text = <<"2024-01-09">> -> Stamp(9, 0)
      [] OTHER -> None

\* "|".join(pr.warnings) if pr.warnings else ""
RECURSIVE JoinWarnings(_)
JoinWarnings(warnings) ==
    IF warnings = <<>> THEN <<>>
    ELSE IF Len(warnings) = 1 THEN <<warnings[1]>>
    ELSE <<warnings[1], "|">> \o JoinWarnings(Tail(warnings))

PREFERRED ==
    {"Politician", "ticker", "stock_clean", "raw_stock", "Sector", "Trade Type",
     "Trade Date", "trade_date", "Amount", "amount_low", "amount_high",
     "amount_mid", "scrape_ts", "source_url", "header_hash", "parse_warnings"}

\* one record as a row of the normalised frame, amt its parsed amount
NormalizedRow(rec, amt, header_hash, warnings) ==
    [k \in PREFERRED |->
        CASE k = "Politician" -> rec[<<"Politician">>]
          [] k = "ticker" -> None
          [] k = "stock_clean" -> CleanStockName(rec[<<"Stock">>])
          [] k = "raw_stock" -> rec[<<"Stock">>]
          [] k = "Sector" -> rec[<<"Sector">>]
          [] k = "Trade Type" -> rec[<<"Trade", " ", "Type">>]
          [] k = "Trade Date" -> rec[<<"Trade", " ", "Date">>]
          [] k = "trade_date" -> ToDatetime(rec[<<"Trade", " ", "Date">>])
          [] k = "Amount" -> rec[<<"Amount">>]
          [] k = "amount_low" -> amt.amount_low
          [] k = "amount_high" -> amt.amount_high
          [] k = "amount_mid" -> amt.amount_mid
          [] k = "scrape_ts" -> FETCHED_AT
          [] k = "source_url" -> SOURCE_URL
          [] k = "header_hash" -> header_hash
          [] k = "parse_warnings" -> JoinWarnings(warnings)]

\* df["Amount"].apply(_parse_amount_bracket) raises what one call raises
AmountRaises(records) ==
    \E i \in 1..Len(records) : ParseAmountBracket(records[i][<<"Amount">>]).exc # NoExc

\* the frame of zero records: three scalars assigned to a frame without rows,
\* then a list of one warning
NoRowsParsed(header_hash) ==
    AssignList(AssignScalar(AssignScalar(AssignScalar(EmptyDF, "scrape_ts", FETCHED_AT),
                                         "source_url", SOURCE_URL),
                            "header_hash", header_hash),
               "parse_warnings", << <<"No rows parsed">> >>)

\* normalize_records: [exc, value]
NormalizeRecords(p) ==
    IF p.records = <<>> THEN Returned(NoRowsParsed(p.header_hash))
    ELSE IF AmountRaises(p.records)
    THEN Raised(ValueError("could not convert string to float"), EmptyDF)
    ELSE Returned([columns |-> PREFERRED,
                   rows |-> [i \in 1..Len(p.records) |->
                               NormalizedRow(p.records[i],
                                             ParseAmountBracket(p.records[i][<<"Amount">>]).value,
                                             p.header_hash, p.warnings)]])

\* _lookup_ticker: the stub finds nothing
LookupTicker(name) == None

\* normalize_tickers
NormalizeTickers(d) ==
    IF DfEmpty(d) \/ "stock_clean" \notin d.columns THEN d
    ELSE [columns |-> d.columns \cup {"ticker", "ticker_missing"},
          rows |-> [i \in 1..Len(d.rows) |->
                      SetCol(SetCol(d.rows[i], "ticker",
                                    LookupTicker(d.rows[i].stock_clean)),
                             "ticker_missing",
                             LookupTicker(d.rows[i].stock_clean) = None)]]

\* what requests.get can do: time out, or answer with a status and a body
\* that is empty or not
HttpOutcomes ==
    {[raised |-> TRUE, status_code |-> 0, empty |-> TRUE]} \cup
    {[raised |-> FALSE, status_code |-> c, empty |-> e] :
        c \in {200, 204, 500}, e \in BOOLEAN}

FetchHtmlDone(r) ==
    /\ html' = r.value
    /\ exc' = r.exc
    /\ pc' = IF r.exc = NoExc THEN "parse" ELSE "raised"

\* fetch_quiver_trades: html = fetch_html()
FetchHtmlStep ==
    /\ pc = "fetch"
    /\ \E resp \in HttpOutcomes : FetchHtmlDone(FetchHtml(resp, page))
    /\ UNCHANGED <<page, pr, df, inline_error, clean_vars, amount_vars, news_vars>>

NormalizeRecordsDone(r) ==
    /\ df' = r.value
    /\ exc' = r.exc
    /\ pc' = IF r.exc = NoExc THEN "loaded" ELSE "raised"

\* fetch_quiver_trades: df = normalize_records(pr, fetched_at); return df
NormalizeRecordsStep ==
    /\ pc = "normalize"
    /\ NormalizeRecordsDone(NormalizeRecords(pr))
    /\ UNCHANGED <<page, html, pr, inline_error, clean_vars, amount_vars, news_vars>>

\* load_raw_trades: the except clause takes QuiverIngestionError alone; any
\* other exception leaves the script
LoadRawTradesExcept ==
    /\ pc = "raised"
    /\ IF exc.kind = "QuiverIngestionError"
       THEN /\ inline_error' = <<"Ingestion error: ", exc.msg>>
            /\ df' = EmptyDF
            /\ pc' = "loaded"
       ELSE /\ pc' = "crashed"
            /\ UNCHANGED <<inline_error, df>>
    /\ UNCHANGED <<page, html, exc, pr, clean_vars, amount_vars, news_vars>>

\* if df_raw.empty: st.warning(...); st.stop()
AppEmptyCheck ==
    /\ pc = "loaded"
    /\ pc' = IF DfEmpty(df) THEN "stopped" ELSE "normalize_tickers"
    /\ UNCHANGED <<page, html, exc, pr, df, inline_error, clean_vars, amount_vars,
                   news_vars>>

\* df_enriched = normalize_tickers(df_raw)
AppNormalizeTickers ==
    /\ pc = "normalize_tickers"
    /\ df' = NormalizeTickers(df)
    /\ pc' = "enrich_news"
    /\ UNCHANGED <<page, html, exc, pr, inline_error, clean_vars, amount_vars,
                   news_vars>>

AppComputeScoresDone(r) ==
    /\ df' = r.value
    /\ exc' = r.exc
    /\ pc' = IF r.exc = NoExc THEN "scored" ELSE "crashed"

\* df_scored = compute_scores(df_enriched): nothing catches what it raises
AppComputeScores ==
    /\ pc = "enriched"
    /\ AppComputeScoresDone(ComputeScores(df))
    /\ UNCHANGED <<page, html, pr, inline_error, clean_vars, amount_vars, news_vars>>

----------------------------------------------------------------------------
(* Idle values of the variables a specification does not use *)

IdleClean == raw = <<>> /\ cleaned = <<>> /\ recleaned = <<>>

IdleAmount == bracket = <<>> /\ amount = NullAmount

IdleNews ==
    /\ api_key = FALSE /\ cache = <<>> /\ now = 0 /\ query_cache = <<>>
    /\ news_idx = 0 /\ news_out = <<>> /\ calls = <<>>

----------------------------------------------------------------------------
(* The pages the source site may serve *)

H_OK ==
    << <<"Politician">>, <<"Stock">>, <<" ", "Trade", " ", " ", "Type">>,
       <<"Trade", "\t", "Date", " ">>, <<"Amount">>, <<"Sector">> >>
\* a leading extra column: a superset of the expected headers whose first six
\* columns lack Sector
H_SHIFTED == << <<"Id">> >> \o H_OK
\* no Sector column
H_MISSING == Take(H_OK, 5)

HeaderChoices == {H_OK, H_SHIFTED, H_MISSING}

ROW_A ==
    << <<"PolA">>, <<"F", "o", "o", " ", "I", "n", "c">>, <<"Purchase">>,
       <<"2024-01-05">>, <<"$", "1", "K", "-", "$", "2", "K">>, <<"Technology">> >>
ROW_B ==
    << <<"PolB">>, <<"B", "a", "r">>, <<"Sale">>, <<>>, <<>>, <<"Mining">> >>
ROW_DOT ==
    << <<"PolA">>, <<"F", "o", "o">>, <<"Purchase">>, <<"2024-01-09">>, <<".">>,
       <<"Energy">> >>
ROW_SHORT == Take(ROW_A, 5)
ROW_LONG == ROW_A \o << <<"note">> >>

RowChoices == {ROW_A, ROW_B, ROW_DOT, ROW_SHORT, ROW_LONG}

RowSeqs(r) == UNION {[1..n -> RowChoices] : n \in 0..r}

\* a table without any tr has no rows either
NoTrTable == [has_tr |-> FALSE, header_cells |-> <<>>, rows |-> <<>>]

TablesWith(r) ==
    {NoTrTable} \cup
    {[has_tr |-> TRUE, header_cells |-> h, rows |-> rs] :
        h \in HeaderChoices, rs \in RowSeqs(r)}

\* the documents of at most t tables and r data rows in all
RECURSIVE DocsOf(_, _)
DocsOf(t, r) ==
    IF t = 0 THEN {<<>>}
    ELSE {<<>>} \cup
         UNION { { <<tb>> \o d : d \in DocsOf(t - 1, r - Len(tb.rows)) } :
                 tb \in TablesWith(r) }

\* the pages of at most t tables with at most r rows in all
Pages(t, r) == DocsOf(t, r)

----------------------------------------------------------------------------
(* parse_table on its own *)

ParseTableDone(r) ==
    /\ pr' = r.value
    /\ exc' = r.exc
    /\ pc' = IF r.exc = NoExc THEN "normalize" ELSE "raised"

ParseTableStep ==
    /\ pc = "parse"
    /\ ParseTableDone(ParseTable(html))
    /\ UNCHANGED <<page, html, df, inline_error, clean_vars, amount_vars, news_vars>>

InitParse ==
    /\ page \in Pages(MaxTables, MaxRows)
    /\ html = page
    /\ pc = "parse" /\ exc = NoExc /\ pr = NoParseResult /\ df = EmptyDF
    /\ inline_error = <<>>
    /\ IdleClean /\ IdleAmount /\ IdleNews

NextParse == ParseTableStep

SpecParse == InitParse /\ [][NextParse]_vars

----------------------------------------------------------------------------
(* _parse_amount_bracket on its own *)

BracketChars == {"$", "1", "5", ",", ".", "K", "m", " ", "-", "x"}

Brackets(len) == UNION {[1..n -> BracketChars] : n \in 0..len}

ParseAmountDone(r) ==
    /\ amount' = r.value
    /\ exc' = r.exc
    /\ pc' = IF r.exc = NoExc THEN "returned" ELSE "raised"

ParseAmountStep ==
    /\ pc = "parse_amount"
    /\ ParseAmountDone(ParseAmountBracket(bracket))
    /\ UNCHANGED <<page, html, pr, df, inline_error, bracket, clean_vars, news_vars>>

InitAmount ==
    /\ bracket \in Brackets(MaxBracketLen)
    /\ amount = NullAmount
    /\ pc = "parse_amount" /\ page = <<>> /\ html = <<>> /\ exc = NoExc
    /\ pr = NoParseResult /\ df = EmptyDF /\ inline_error = <<>>
    /\ IdleClean /\ IdleNews

NextAmount == ParseAmountStep

SpecAmount == InitAmount /\ [][NextAmount]_vars

----------------------------------------------------------------------------
(* clean_stock_name on its own, applied twice *)

NameFragments ==
    { <<"F", "o", "o">>, <<" ">>, <<"\t">>, <<"I", "n", "c">>, <<"C", "o">>,
      <<".">>, <<"-">>, <<"c", "l", "a", "s", "s">>, <<"A">>, MOJIBAKE }

RECURSIVE Concat(_)
Concat(ss) == IF ss = <<>> THEN <<>> ELSE Head(ss) \o Concat(Tail(ss))

RawNames(k) ==
    {Concat(fs) : fs \in UNION {[1..n -> NameFragments] : n \in 0..k}}

CleanStep ==
    /\ pc = "clean"
    /\ cleaned' = CleanStockName(raw)
    /\ pc' = "clean_again"
    /\ UNCHANGED <<page, html, exc, pr, df, inline_error, raw, recleaned,
                   amount_vars, news_vars>>

CleanAgainStep ==
    /\ pc = "clean_again"
    /\ recleaned' = CleanStockName(cleaned)
    /\ pc' = "returned"
    /\ UNCHANGED <<page, html, exc, pr, df, inline_error, raw, cleaned,
                   amount_vars, news_vars>>

InitClean ==
    /\ raw \in RawNames(MaxNameFragments)
    /\ cleaned = <<>> /\ recleaned = <<>>
    /\ pc = "clean" /\ page = <<>> /\ html = <<>> /\ exc = NoExc
    /\ pr = NoParseResult /\ df = EmptyDF /\ inline_error = <<>>
    /\ IdleAmount /\ IdleNews

NextClean == CleanStep \/ CleanAgainStep

SpecClean == InitClean /\ [][NextClean]_vars


----------------------------------------------------------------------------
(* One run of the app script: load, enrich, score (Spec) *)

Init ==
    /\ page \in Pages(MaxTables, MaxRows)
    /\ html = <<>>
    /\ pc = "fetch" /\ exc = NoExc /\ pr = NoParseResult /\ df = EmptyDF
    /\ inline_error = <<>>
    /\ api_key \in BOOLEAN
    /\ cache = <<>> /\ now = 0 /\ query_cache = <<>> /\ news_idx = 0
    /\ news_out = <<>> /\ calls = <<>>
    /\ IdleClean /\ IdleAmount

Next ==
    \/ FetchHtmlStep
    \/ ParseTableStep
    \/ NormalizeRecordsStep
    \/ LoadRawTradesExcept
    \/ AppEmptyCheck
    \/ AppNormalizeTickers
    \/ EnrichNewsBegin
    \/ EnrichSkipRow
    \/ EnrichMemoRow
    \/ EnrichRequestRow
    \/ EnrichNewsEnd
    \/ AppComputeScores

Spec == Init /\ [][Next]_vars

----------------------------------------------------------------------------
(* compute_scores over bounded batches (SpecScore) *)

Money(k) == Some(RInt(k))

\* the columns of a normalised, enriched trade that scoring reads
TradeColumns ==
    {"Politician", "stock_clean", "Sector", "amount_low", "amount_high",
     "amount_mid", "headline_count"}

Trade(politician, stock, sector, low, high, mid, headlines) ==
    [Politician |-> politician, stock_clean |-> stock, Sector |-> sector,
     amount_low |-> low, amount_high |-> high, amount_mid |-> mid,
     headline_count |-> headlines]

\* a range bracket, an unparsed amount with an unknown sector, a single-value
\* bracket without a headline count, and a row whose midpoint alone is null
TradeChoices ==
    {Trade(<<"PolA">>, <<"X">>, <<"Technology">>, Money(1000), Money(5000),
           Money(3000), Money(5)),
     Trade(<<"PolB">>, <<"Y">>, <<"Mining">>, None, None, None, Money(0)),
     Trade(<<"PolA">>, <<"X">>, <<"Energy">>, Money(1000), Money(1000),
           Money(1000), None),
     Trade(<<"PolA">>, <<"Y">>, <<"Utilities">>, Money(2000), None, None,
           Money(2))}

EventFlagChoices == {None, Money(0), Money(1)}
DaysToEventChoices == {None, Money(0), Money(4), Money(-2)}

WithColumn(rows, c, values) == {SetCol(r, c, v) : r \in rows, v \in values}

BatchesOf(columns, rows, n) ==
    {[columns |-> columns, rows |-> s] : s \in UNION {[1..k -> rows] : k \in 0..n}}

\* batches without an event column, with event_flag, with days_to_event
ScoreBatches(n) ==
    BatchesOf(TradeColumns, TradeChoices, n)
    \cup BatchesOf(TradeColumns \cup {"event_flag"},
                   WithColumn(TradeChoices, "event_flag", EventFlagChoices), n)
    \cup BatchesOf(TradeColumns \cup {"days_to_event"},
                   WithColumn(TradeChoices, "days_to_event", DaysToEventChoices),
                   n)

\* trades that differ in their (politician, cleaned stock) pair alone
PatternChoices ==
    {Trade(p, x, <<"Technology">>, Money(1000), Money(1000), Money(1000), Money(1)) :
        p \in {<<"PolA">>, <<"PolB">>}, x \in {<<"X">>, <<"Y">>}}

PatternBatches(n) == BatchesOf(TradeColumns, PatternChoices, n)

ComputeScoresDone(r) ==
    /\ df' = r.value
    /\ exc' = r.exc
    /\ pc' = IF r.exc = NoExc THEN "returned" ELSE "raised"

ComputeScoresStep ==
    /\ pc = "compute_scores"
    /\ ComputeScoresDone(ComputeScores(df))
    /\ UNCHANGED <<page, html, pr, inline_error, clean_vars, amount_vars, news_vars>>

InitScore ==
    /\ df \in ScoreBatches(MaxBatch) \cup PatternBatches(MaxPatternBatch)
    /\ pc = "compute_scores" /\ page = <<>> /\ html = <<>> /\ exc = NoExc
    /\ pr = NoParseResult /\ inline_error = <<>>
    /\ IdleClean /\ IdleAmount /\ IdleNews

NextScore == ComputeScoresStep

SpecScore == InitScore /\ [][NextScore]_vars

----------------------------------------------------------------------------
(* One enrich_news pass over bounded batches (SpecNews) *)

NewsTrade(td, ticker, stock) ==
    [trade_date |-> td, ticker |-> ticker, stock_clean |-> stock]

\* two trades of one stock on one day, one four days later, one without a
\* date, one without a token, one whose ticker is the other trades' name
NewsChoices ==
    {NewsTrade(Stamp(5, 0), None, <<"F", "o", "o">>),
     NewsTrade(Stamp(5, 12), None, <<"F", "o", "o">>),
     NewsTrade(Stamp(9, 0), None, <<"F", "o", "o">>),
     NewsTrade(None, None, <<"F", "o", "o">>),
     NewsTrade(Stamp(5, 0), None, <<>>),
     NewsTrade(Stamp(5, 0), <<"F", "o", "o">>, <<"B", "a", "r">>)}

NewsBatches(n) == BatchesOf({"trade_date", "ticker", "stock_clean"}, NewsChoices, n)

\* the process-wide cache as an earlier pass can have left it
EarlierCache ==
    (Ck(<< "\"", "F", "o", "o", "\"" >>, 3, 7) :>
        [ts |-> 0, data |-> [status |-> "ok", articles |-> <<Article(3)>>]])

InitNews ==
    /\ df \in NewsBatches(MaxNewsBatch)
    /\ api_key \in BOOLEAN
    /\ cache \in {<<>>, EarlierCache}
    /\ now = 0 /\ query_cache = <<>> /\ news_idx = 0 /\ news_out = <<>>
    /\ calls = <<>>
    /\ pc = "enrich_news" /\ page = <<>> /\ html = <<>> /\ exc = NoExc
    /\ pr = NoParseResult /\ inline_error = <<>>
    /\ IdleClean /\ IdleAmount

NextNews ==
    \/ EnrichNewsBegin
    \/ EnrichSkipRow
    \/ EnrichMemoRow
    \/ EnrichRequestRow
    \/ EnrichNewsEnd

SpecNews == InitNews /\ [][NextNews]_vars

----------------------------------------------------------------------------
(* _news_request called again and again in one process (SpecCache) *)

\* the (query, from_date, to_date) arguments of the calls
RequestArgs == {<< <<"\"", "F", "o", "o", "\"">>, 3, 7 >>,
                << <<"\"", "F", "o", "o", "\"">>, 7, 11 >>}

\* the call has returned: calls holds the last call alone, under its cache key
NewsRequestReturned(key, t, r) ==
    /\ now' = t
    /\ cache' = r.cache
    /\ calls' = <<[key |-> key, data |-> r.data, fetched |-> r.fetched]>>
    /\ pc' = "news_request"

\* one call of _news_request, some time after the one before
NewsRequestCall ==
    /\ pc = "news_request"
    /\ \E a \in RequestArgs, response \in NetworkOutcomes, step \in ClockSteps :
          /\ now + step <= MaxClockSteps * (CACHE_TTL \div 2)
          /\ NewsRequestReturned(Ck(a[1], a[2], a[3]), now + step,
                                 NewsRequest(a[1], a[2], a[3], now + step, response))
    /\ UNCHANGED <<page, html, exc, pr, df, inline_error, clean_vars, amount_vars,
                   api_key, query_cache, news_idx, news_out>>

InitCache ==
    /\ api_key = TRUE
    /\ cache = <<>> /\ now = 0 /\ calls = <<>>
    /\ query_cache = <<>> /\ news_idx = 0 /\ news_out = <<>>
    /\ pc = "news_request" /\ page = <<>> /\ html = <<>> /\ exc = NoExc
    /\ pr = NoParseResult /\ df = EmptyDF /\ inline_error = <<>>
    /\ IdleClean /\ IdleAmount

NextCache == NewsRequestCall

SpecCache == InitCache /\ [][NextCache]_vars

----------------------------------------------------------------------------
(* Claims about parse_table (SpecParse) *)

\* the table parse_table selects, stated from the document
SelectedTable ==
    html[CHOOSE i \in 1..Len(html) :
            /\ TableMatches(html[i])
            /\ \A k \in 1..(i - 1) : ~TableMatches(html[k])]

HasMatchingTable == \E i \in 1..Len(html) : TableMatches(html[i])

ShortRowsOf(tbl) == {i \in 1..Len(tbl.rows) : Len(tbl.rows[i]) < 6}
FullRowsOf(tbl) == {i \in 1..Len(tbl.rows) : Len(tbl.rows[i]) >= 6}

\* the first six standardized headers hold every expected column
AlignedHeaders(tbl) ==
    \A h \in EXPECTED_HEADERS :
        \E j \in 1..Min2(6, Len(tbl.header_cells)) :
            StandardizeHeader(tbl.header_cells[j]) = h

\* the failure parse_table answers a document without tables with
NoTablesFailure == ParseTable(<<>>).exc

\* C1 as stated: a document with tables of which none matches fails with an
\* error kind distinct from the kind of the no-tables failure, and no records
\* are returned.
C1_DistinctErrorKinds ==
    (pc = "raised" /\ html # <<>>) =>
        /\ exc.kind # NoTablesFailure.kind
        /\ pr.records = <<>>

\* C1 amended: both failures are the one kind QuiverIngestionError; they differ
\* in their message only ("No tables found in HTML." for a document without
\* tables, "No table contained expected headers." for one with tables none of
\* which matches), and no records are returned in either case.
C1_SameKindDistinctMessage ==
    pc # "parse" =>
        /\ html = <<>> =>
              /\ pc = "raised"
              /\ exc.kind = "QuiverIngestionError"
              /\ exc.msg = "No tables found in HTML."
              /\ pr.records = <<>>
        /\ (html # <<>> /\ ~HasMatchingTable) =>
              /\ pc = "raised"
              /\ exc.kind = "QuiverIngestionError"
              /\ exc.msg = "No table contained expected headers."
              /\ pr.records = <<>>
        /\ pc = "raised" => ~HasMatchingTable

C1_Witness ==
    /\ pc = "raised" /\ Len(html) = 2
    /\ exc.msg = "No table contained expected headers."

----------------------------------------------------------------------------
(* Claims about _parse_amount_bracket (SpecAmount) *)

HasDigit(s) == \E i \in 1..Len(s) : IsDigit(s[i])

\* C9 as stated: for every bracket string the parser returns without raising,
\* either the all-null triple or (low, high, mid) with mid = (low+high)/2, and
\* a string without a digit yields the all-null triple.
C9_NeverRaises ==
    pc # "parse_amount" =>
        /\ pc = "returned"
        /\ ~HasDigit(bracket) => amount = NullAmount
        /\ amount # NullAmount =>
              RAdd(amount.amount_low[1], amount.amount_high[1])
                  = RMul(RInt(2), amount.amount_mid[1])

----------------------------------------------------------------------------
(* Claims about clean_stock_name (SpecClean) *)

\* C8 as stated: clean(clean(x)) = clean(x) for every x.
C8_Idempotent == pc = "returned" => recleaned = cleaned


----------------------------------------------------------------------------
(* Claims about compute_scores (SpecScore) *)

InUnit(v) == v # None /\ RLeq(R0, v[1]) /\ RLeq(v[1], R1)

ComponentColumns ==
    {"score_amount", "score_sector_volatility", "score_news_intensity",
     "score_event_proximity", "score_pattern"}

Scored1 == pc = "returned" /\ df.rows # <<>>

\* C5 as stated: for every non-empty batch compute_scores returns, and every
\* trade has its five component scores in [0,1] and its final score in [0,100].
C5_ScoresInRange ==
    pc # "compute_scores" /\ df.rows # <<>> =>
        /\ pc = "returned"
        /\ \A i \in 1..Len(df.rows) :
              /\ \A c \in ComponentColumns : InUnit(df.rows[i][c])
              /\ df.rows[i].score # None
              /\ RLeq(R0, df.rows[i].score[1])
              /\ RLeq(df.rows[i].score[1], RInt(100))

\* the number of trades of the batch with the pair of trade i
PairCount(i) ==
    Cardinality({j \in 1..Len(df.rows) :
                    /\ df.rows[j].Politician = df.rows[i].Politician
                    /\ df.rows[j].stock_clean = df.rows[i].stock_clean})

MaxPairCount ==
    CHOOSE m \in {PairCount(i) : i \in 1..Len(df.rows)} :
        \A i \in 1..Len(df.rows) : PairCount(i) <= m

ExampleBatch ==
    /\ Len(df.rows) = 4
    /\ \A i \in 1..3 : /\ df.rows[i].Politician = <<"PolA">>
                       /\ df.rows[i].stock_clean = <<"X">>
    /\ df.rows[4].Politician = <<"PolB">> /\ df.rows[4].stock_clean = <<"Y">>

\* C6: compute_scores returns for every batch (nothing is divided by zero), the
\* pattern score of a trade is (count-1)/(max_count-1) when max_count > 1 and 0
\* for every trade when every pair occurs once; three trades of (A, X) and one
\* of (B, Y) give 1 to each X trade and 0 to the Y trade.
C6_PatternScore ==
    /\ pc # "raised"
    /\ Scored1 =>
          /\ \A i \in 1..Len(df.rows) :
                df.rows[i].score_pattern =
                    IF MaxPairCount > 1
                    THEN Some(Rat(PairCount(i) - 1, MaxPairCount - 1))
                    ELSE Some(R0)
          /\ ExampleBatch =>
                /\ \A i \in 1..3 : df.rows[i].score_pattern = Some(R1)
                /\ df.rows[4].score_pattern = Some(R0)

\* C6 witness: the batch of the example has been scored, with pattern score 1
\* for its first trade and 0 for its last
C6_Witness ==
    /\ Scored1 /\ ExampleBatch
    /\ df.rows[1].score_pattern = Some(R1)
    /\ df.rows[4].score_pattern = Some(R0)

\* the columns a trade brings to the five components
InputColumns == (df.columns \ ScoreColumns) \ {"Politician", "stock_clean"}

IdenticalInputs ==
    \A i, j \in 1..Len(df.rows) :
        /\ \A c \in InputColumns : df.rows[i][c] = df.rows[j][c]
        /\ PairCount(i) = PairCount(j)

\* C7: a non-empty batch whose trades share their amount, sector, news, event
\* and pattern inputs is scored without raising, and every trade gets the same
\* final score, the one the denominator 1 gives: (raw - min) / 1 * 100 = 0.
C7_ZeroVariance ==
    pc # "compute_scores" /\ df.rows # <<>> /\ IdenticalInputs =>
        /\ pc = "returned"
        /\ \A i \in 1..Len(df.rows) :
              /\ df.rows[i].score_raw = df.rows[1].score_raw
              /\ df.rows[i].score = Some(R0)

\* C7 witness: two trades with the same inputs, whose days_to_event are all
\* zero, have been scored
C7_Witness ==
    /\ Scored1 /\ Len(df.rows) = 2 /\ IdenticalInputs
    /\ "days_to_event" \in df.columns
    /\ df.rows[1].days_to_event = Money(0)
    /\ df.rows[1].score = df.rows[2].score

----------------------------------------------------------------------------
(* Claims about enrich_news (SpecNews) *)

\* the calls of the pass made for the key of row i
CallsFor(i) == {c \in 1..Len(calls) : calls[c].key = QueryKey(df.rows[i])}

SharedKey(i, j) ==
    /\ Queryable(df.rows[i]) /\ Queryable(df.rows[j])
    /\ QueryKey(df.rows[i]) = QueryKey(df.rows[j])

\* C10: within one pass no two _news_request calls have the same (query,
\* window-start, window-end) key, so at most one network request is made for
\* it, and every handled trade with that key gets the entry built from the
\* result of that one call, also in the returned frame.
C10_OneRequestPerKey ==
    /\ \A c, e \in 1..Len(calls) : calls[c].key = calls[e].key => c = e
    /\ \A i \in 1..Len(news_out) :
          Queryable(df.rows[i]) =>
              /\ Cardinality(CallsFor(i)) = 1
              /\ \A c \in CallsFor(i) : news_out[i] = NewsEntry(calls[c].data)
    /\ pc = "enriched" /\ news_out # <<>> =>
          \A i \in 1..Len(df.rows) :
              \A k \in NewsColumns : df.rows[i][k] = news_out[i][k]

\* C10 witness: a pass over three trades with one key has ended after one
\* fetched request whose article every one of them carries
C10_Witness ==
    /\ pc = "enriched" /\ Len(df.rows) = 3
    /\ SharedKey(1, 2) /\ SharedKey(2, 3)
    /\ df.rows[1].trade_date # df.rows[2].trade_date
    /\ Len(calls) = 1 /\ calls[1].fetched
    /\ \A i \in 1..3 : /\ df.rows[i].news_status = "ok"
                       /\ df.rows[i].headline_count = Some(RInt(1))

StatusTags == {"ok", "missing_key", "error", "no_date", "no_query"}

\* C11 as stated: in the frame enrich_news returns, every trade's news_status
\* is one of ok, missing_key, error, no_date, no_query, its headlines are at
\* most MAX_ARTICLES_PER_TRADE and headline_count is their number.
C11_StatusAndHeadlines ==
    pc = "enriched" /\ "news_status" \in df.columns =>
        \A i \in 1..Len(df.rows) :
            /\ df.rows[i].news_status \in StatusTags
            /\ Len(df.rows[i].headlines) <= MAX_ARTICLES_PER_TRADE
            /\ df.rows[i].headline_count = Some(RInt(Len(df.rows[i].headlines)))

MissingKeyEntry(e) ==
    /\ e.news_status = "missing_key"
    /\ e.headlines = <<>>
    /\ e.headline_count = Some(R0)

\* C12: without the credential no call of the pass reaches the network, every
\* handled trade with a date and a token has status missing_key, no headline
\* and count 0, in the loop and in the returned frame, and the pass raises
\* nowhere: until enrich_news has returned to the script, whose next statement
\* is the call of compute_scores, a step of it is always possible.
C12_MissingKey ==
    ~api_key /\ pc \in {"enrich_news", "news_row", "enriched"} =>
        /\ \A c \in 1..Len(calls) : ~calls[c].fetched
        /\ \A i \in 1..Len(news_out) :
              Queryable(df.rows[i]) => MissingKeyEntry(news_out[i])
        /\ pc = "enriched" /\ "news_status" \in df.columns =>
              \A i \in 1..Len(df.rows) :
                  Queryable(df.rows[i]) => MissingKeyEntry(df.rows[i])
        /\ pc # "enriched" => ENABLED NextNews

\* C12 witness: a pass without the credential has returned a frame of two
\* trades with a date and a token, both tagged missing_key
C12_Witness ==
    /\ ~api_key /\ pc = "enriched" /\ Len(df.rows) >= 2
    /\ Queryable(df.rows[1]) /\ Queryable(df.rows[2])
    /\ QueryKey(df.rows[1]) # QueryKey(df.rows[2])
    /\ MissingKeyEntry(df.rows[1]) /\ MissingKeyEntry(df.rows[2])
    /\ Len(calls) = 2

----------------------------------------------------------------------------
(* Claims about the app's run (Spec) *)

\* a failure of the five kinds: a timeout of requests.get, or one of the four
\* conditions fetch_html and parse_table raise for
FatalIngestionFailure ==
    exc.kind \in {"QuiverIngestionError", "requests.RequestException"}

\* C3 as stated: every fatal ingestion failure is raised as the ingestion
\* error, the run then shows the inline error with an empty dataset and stops,
\* and it never crashes or goes on to enrichment or scoring.
C3_FatalFailureShownInline ==
    FatalIngestionFailure =>
        /\ exc.kind = "QuiverIngestionError"
        /\ pc \in {"raised", "loaded", "stopped"}
        /\ pc \in {"loaded", "stopped"} => inline_error # <<>> /\ DfEmpty(df)

\* C4 as stated: when parse_table returns zero records, normalize_records
\* returns without raising an empty dataset that carries the warning column.
C4_EmptySuccess ==
    pc \in {"loaded", "raised"} /\ pr # NoParseResult /\ pr.records = <<>> =>
        /\ pc = "loaded" /\ exc = NoExc
        /\ DfEmpty(df)
        /\ "parse_warnings" \in df.columns

----------------------------------------------------------------------------
(* Claims about the process-wide news cache (SpecCache) *)

\* the entry the call found is younger than CACHE_TTL at the time of the call
FreshEntry(key) == key \in DOMAIN cache /\ now' - cache[key].ts < CACHE_TTL

\* what a call found and left, c its record in the log
CallContract(c) ==
    /\ pc' = "news_request"
    /\ IF FreshEntry(c.key)
       THEN /\ ~c.fetched
            /\ c.data = cache[c.key].data
            /\ cache' = cache
       ELSE /\ c.fetched
            /\ DOMAIN cache' = (DOMAIN cache) \cup {c.key}
            /\ cache'[c.key] = [ts |-> now', data |-> c.data]
            /\ \A k \in (DOMAIN cache) \ {c.key} : cache'[k] = cache[k]

\* C13: with the credential set, every call of _news_request returns without
\* raising; it makes no network request, returns the stored response and leaves
\* the cache alone exactly when the cache holds an entry for its key of age
\* below CACHE_TTL; otherwise it fetches and replaces the key's entry by the
\* response returned and the time of the call, other entries untouched.
C13_CacheContract == [][CallContract(calls'[1])]_vars

\* C13 witness: a call made later than the fetch that stored an error result
\* was served that result from the cache, while another key's entry is held
C13_Witness ==
    /\ pc = "news_request" /\ calls # <<>>
    /\ ~calls[1].fetched
    /\ StatusOf(calls[1].data) = "error"
    /\ "error" \in DOMAIN calls[1].data
    /\ now > cache[calls[1].key].ts
    /\ Cardinality(DOMAIN cache) = 2

====
